---- MODULE Spec2Model ----
(***************************************************************************)
(* bedup/tracking.py: the catalog operations get_vol, forget_vol,          *)
(* track_updated_files and dedup_tracked / dedup_tracked1, run by one      *)
(* single-threaded process against a Btrfs filesystem that other processes *)
(* change concurrently.                                                    *)
(*                                                                         *)
(* Sizes and size cutoffs are counted in units of 4 MiB, generations in    *)
(* transactions.  None (Python) is modelled by -1.                         *)
(***************************************************************************)
EXTENDS Integers, Sequences, FiniteSets, TLC

None == 0 - 1

(* ------------------------------ bounds -------------------------------- *)

\* external events (changes by other processes, injected I/O errors)
MaxExt == 2
\* operations (get_vol, forget_vol, track_updated_files, dedup_tracked)
MaxOps == 5
\* external events during the dedup runs
MaxRace == 1
\* largest file size
MaxSize == 3
\* file contents
MaxData == 3

(* ------------------------- program constants -------------------------- *)

\* tracking.py:61 (8 MiB)
DEFAULT_SIZE_CUTOFF == 2
\* tracking.py:50, scaled down: groups per window of windowed_query
WINDOW_SIZE == 1
\* tracking.py:245, scaled down: sk.nr_items, headers per tree-search batch
NR_ITEMS == 2
\* tracking.py:242 lib.BTRFS_INODE_ITEM_KEY, and the other item types a
\* subvolume tree holds for an inode (the inode ref)
BTRFS_INODE_ITEM_KEY == 1
OTHER_ITEM_KEYS == {12}
\* tracking.py:358: 3 for stdio, 3 for sqlite, 1 that does not get closed
OFILE_BASE == 7

(* ------------------------------ universe ------------------------------ *)

Vols == {1, 2}
\* File objects.  Each has a fixed subvolume and inode number; file 4 is a
\* directory.  A file that is unlinked and created again is a new file that
\* reuses the inode number.
Files == {1, 2, 3, 4, 5}
FileVol == <<1, 1, 2, 1, 2>>
FileIno == <<1, 2, 1, 3, 2>>
FileReg == <<TRUE, TRUE, TRUE, FALSE, TRUE>>
Keys == {<<FileVol[f], FileIno[f]>> : f \in Files}
Sizes == 1..MaxSize
Data == 0..MaxData
\* size cutoffs given on the command line (None: not given)
CutoffArgs == {None, 2, 3}

VARIABLES
    fsys,         \* the filesystem, per file object: path, size, data, ext, gen, transid, lock, writer
    rootgen,      \* root generation of each subvolume
    rlimit,       \* RLIMIT_OFILE of the process: [soft, hard]
    db,           \* the committed catalog
    sess,         \* the catalog as the session sees it (db plus uncommitted changes)
    synchronous,  \* PRAGMA synchronous of the connection
    volfd,        \* volumes that have vol.fd in this process (get_vol was called)
    pc,           \* where the process is
    sk,           \* locals of track_updated_files
    run,          \* locals of dedup_tracked / dedup_tracked1 / windowed_query
    clone,        \* the last clone_data call, as it was made
    budget,       \* external events left
    nops          \* operations started

vars == <<fsys, rootgen, rlimit, db, sess, synchronous, volfd, pc, sk, run,
          clone, budget, nops>>

(* ----------------------------- filesystem ----------------------------- *)

\* A file is linked when it has a path (0: unlinked or not created).
Linked(f) == fsys.path[f] # 0

\* lookup_ino_path_one(vol.fd, ino) on filesystem fs: the path of the file
\* that has this inode number, 0 when there is none (ENOENT).
PathOfIno(fs, v, ino) ==
    LET S == {f \in Files : fs.path[f] # 0 /\ FileVol[f] = v /\ FileIno[f] = ino}
    IN IF S = {} THEN 0 ELSE fs.path[CHOOSE f \in S : TRUE]

\* fopenat(vol.fd, path) on filesystem fs: the file that is at this path,
\* 0 when there is none (ENOENT).
FileAt(fs, p) ==
    LET S == {f \in Files : fs.path[f] = p}
    IN IF S = {} \/ p = 0 THEN 0 ELSE CHOOSE f \in S : TRUE

FileAtPath(p) == FileAt(fsys, p)

\* An extent id no other file uses (copy on write gives a written file
\* extents of its own).
FreshExt(f) ==
    CHOOSE e \in Files : \A g \in Files \ {f} : fsys.ext[g] # e


(* ------------------------------ catalog ------------------------------- *)

Put(fn, k, val) == [x \in DOMAIN fn \cup {k} |-> IF x = k THEN val ELSE fn[x]]
Drop(fn, ks) == [x \in DOMAIN fn \ ks |-> fn[x]]

\* The tables Volume and Inode, keyed by their primary keys, and the
\* DedupEvent rows, each with its DedupEventInode rows, in the order they
\* were added.
EmptyCatalog == [vol |-> << >>, inode |-> << >>, events |-> << >>]

\* The locals of dedup_tracked, dedup_tracked1 and windowed_query.  They are
\* kept after the call until the next operation starts.
\*   volset, skipped, reserved, soft, hard: vol_ids, skipped, ofile_reserved,
\*     ofile_soft, ofile_hard
\*   window_start, li, el: of windowed_query; li holds the groups (sizes) of
\*     the window not yet yielded
\*   size, comm2s: comm1.size and what is left of comm1.comm2 (mini hashes)
\*   inodes, count3: comm3.inodes and comm3.inode_count
\*   files, keys: files (the file objects opened) and fd_inodes
\*   revert, in_write_use: of ImmutableFDs
\*   filesets, dpos, ok: the values of by_hash still to do (indexes into
\*     files), the index of dfile in the first of them, dfiles_successful
\*   same: the dfiles of the fileset for which clone_data returned False
\*   clause: what the chained comparison of clear_updates evaluates to
\*   optimize: the interpreter runs with -O (assert statements are removed)
\*   deferred: every inode appended to skipped during the call
\*   peak: the most descriptors the process held at once during the call
\*   block: how the with block of the clone stage was last left in the call
\*     ("returned" or "raised")
\*   overbudget: the inodes of the groups left unopened for the descriptor
\*     budget
\*   misread: the inodes that got a mini or fiemap hash from a file of
\*     another inode
\*   enoent: the inodes whose fopenat_rw failed with ENOENT
\*   second, now0, events0: the call follows a call on the same volumes that
\*     returned normally, with no other operation in between; the clock and
\*     the number of events when the call began
\*   flagged0, groups0: the inodes with has_updates and the sizes of the
\*     groups when the call began
\*   yielded: the sizes of the groups the generator has yielded
\*   returned: dedup_tracked returned normally
NoRun ==
    [volset |-> {}, skipped |-> {}, deferred |-> {}, returned |-> FALSE,
     reserved |-> 0, soft |-> 0, hard |-> 0,
     window_start |-> 0, li |-> << >>, el |-> None,
     size |-> 0, comm2s |-> << >>, inodes |-> << >>, count3 |-> 0,
     files |-> << >>, keys |-> << >>, revert |-> {}, in_write_use |-> {},
     filesets |-> << >>, dpos |-> 0, ok |-> << >>, same |-> {},
     clause |-> "", optimize |-> FALSE, peak |-> 0, block |-> "",
     overbudget |-> {}, misread |-> {}, enoent |-> {},
     second |-> FALSE, now0 |-> 0, events0 |-> 0,
     flagged0 |-> {}, groups0 |-> {}, yielded |-> {}]

\* clone: the files of the last clone_data call, whether the checks of the
\* clone stage all held for them when it was made, and whether their bytes
\* were equal then.
\* now is a clock that ticks once for every fileset of the clone stage;
\* results has, for every clone_data call that returned, the time, the
\* inodes and what it returned.
NoClone == [src |-> 0, dest |-> 0, checked |-> TRUE, same_bytes |-> TRUE,
            now |-> 0, results |-> {}]

\* A Volume row as get_or_create makes it.
NewVolume ==
    [size_cutoff |-> None, last_tracked_generation |-> 0,
     last_tracked_size_cutoff |-> None]

\* get_vol: the size cutoff of the volume row.
get_vol_cutoff(row, vol_created, size_cutoff) ==
    IF size_cutoff # None THEN size_cutoff
    ELSE IF vol_created THEN DEFAULT_SIZE_CUTOFF
    ELSE row.size_cutoff

\* A get_or_create that makes a new row every time.
get_or_create_anew(vols, v) == NewVolume

\* tracking.py:64-66: get_or_create(sess, Volume, ...)
get_or_create(vols, v) == IF v \in DOMAIN vols THEN vols[v] ELSE NewVolume

get_vol(v, size_cutoff) ==
    /\ pc = "idle"
    /\ nops < MaxOps /\ nops' = nops + 1
    /\ LET vol_created == v \notin DOMAIN sess.vol
           row == get_or_create(sess.vol, v)
       IN sess' = [sess EXCEPT !.vol = Put(@, v,
                      [row EXCEPT !.size_cutoff =
                          get_vol_cutoff(row, vol_created, size_cutoff)])]
    /\ volfd' = volfd \cup {v}
    /\ run' = NoRun
    /\ UNCHANGED <<fsys, rootgen, rlimit, db, synchronous, pc, sk, clone, budget>>

\* forget_vol: the generation cursor it leaves, and the audit rows.
forget_vol_generation(row) == 0

\* A forget_vol that deletes the audit rows too.
forget_vol_events_too(events, v) == << >>

forget_vol_events(events, v) == events

forget_vol(v) ==
    /\ pc = "idle"
    /\ nops < MaxOps /\ nops' = nops + 1
    /\ v \in volfd
    /\ sess' = [sess EXCEPT
                   !.inode = Drop(@, {k \in DOMAIN @ : k[1] = v}),
                   !.events = forget_vol_events(@, v),
                   !.vol[v].last_tracked_generation = forget_vol_generation(@)]
    /\ db' = sess'
    /\ run' = NoRun
    /\ UNCHANGED <<fsys, rootgen, rlimit, synchronous, volfd, pc, sk, clone, budget>>

(* ------------------------- track_updated_files ------------------------ *)

\* The items of a subvolume's tree: for each linked file an inode item and
\* an inode ref, both keyed by the inode number.
TreeItems(v) ==
    {[key |-> <<FileIno[f], t, 0>>, f |-> f] :
        f \in {g \in Files : Linked(g) /\ FileVol[g] = v},
        t \in {BTRFS_INODE_ITEM_KEY} \cup OTHER_ITEM_KEYS}

\* Tuple order of tree keys (objectid, type, offset).
KeyLeq(a, b) ==
    \/ a[1] < b[1]
    \/ a[1] = b[1] /\ a[2] < b[2]
    \/ a[1] = b[1] /\ a[2] = b[2] /\ a[3] <= b[3]

RECURSIVE InKeyOrder(_)
InKeyOrder(S) ==
    IF S = {} THEN << >>
    ELSE LET m == CHOOSE x \in S : \A y \in S : KeyLeq(x.key, y.key)
         IN <<m>> \o InKeyOrder(S \ {m})

\* BTRFS_IOC_TREE_SEARCH: at most nr_items headers, in key order, from
\* min_key on, of items changed in transaction min_transid or later.
\* max_objectid and max_offset are u64_max, so the upper key admits the
\* items of every type.
TreeSearch(v, min_key, min_transid, nr_items) ==
    LET hits == InKeyOrder({it \in TreeItems(v) :
                    /\ KeyLeq(min_key, it.key)
                    /\ fsys.transid[it.f] >= min_transid})
    IN SubSeq(hits, 1, IF Len(hits) < nr_items THEN Len(hits) ELSE nr_items)

\* A first generation to scan that never goes back to 0.
min_generation_of_incremental(vol) == vol.last_tracked_generation + 1

\* A first generation to scan that is the cursor itself.
min_generation_of_cursor(vol) ==
    IF vol.last_tracked_size_cutoff # None
       /\ vol.last_tracked_size_cutoff <= vol.size_cutoff
    THEN vol.last_tracked_generation
    ELSE 0

\* tracking.py:207-211
min_generation_of(vol) ==
    IF vol.last_tracked_size_cutoff # None
       /\ vol.last_tracked_size_cutoff <= vol.size_cutoff
    THEN vol.last_tracked_generation + 1
    ELSE 0

\* tracking.py:269-282: whether the scanner passes over an inode item.
scan_skips(vol, min_generation, size, inode_gen, isreg) ==
    \/ size < vol.size_cutoff
    \/ IF vol.last_tracked_size_cutoff # None
          /\ vol.last_tracked_size_cutoff # 0
          /\ size >= vol.last_tracked_size_cutoff
       THEN inode_gen <= vol.last_tracked_generation
       ELSE inode_gen < min_generation
    \/ ~isreg

\* tracking.py:283-298: the Inode rows after one inode item that is not
\* passed over; path_ok is whether lookup_ino_path_one succeeded.
scan_upsert(inodes, k, size, path_ok) ==
    IF ~path_ok THEN Drop(inodes, {k})
    ELSE Put(inodes, k,
             IF k \in DOMAIN inodes
             THEN [inodes[k] EXCEPT !.size = size, !.has_updates = TRUE]
             ELSE [size |-> size, has_updates |-> TRUE,
                   mini_hash |-> None, fiemap_hash |-> None])

\* tracking.py:257-307: the for loop over one batch of headers.
RECURSIVE scan_batch(_, _, _, _, _)
scan_batch(inodes, items, vol, min_generation, bad) ==
    IF items = << >> THEN inodes
    ELSE LET it == Head(items)
             f == it.f
             next ==
                 IF it.key[2] # BTRFS_INODE_ITEM_KEY THEN inodes
                 ELSE IF scan_skips(vol, min_generation, fsys.size[f],
                                    fsys.gen[f], FileReg[f]) THEN inodes
                 ELSE scan_upsert(inodes, <<FileVol[f], FileIno[f]>>,
                                  fsys.size[f], f \notin bad)
         IN scan_batch(next, Tail(items), vol, min_generation, bad)

\* A cursor that stays on the last header.
next_min_key_same(sh_key) == sh_key

\* tracking.py:308-312
next_min_key(sh_key) == <<sh_key[1], sh_key[2], sh_key[3] + 1>>

\* The locals of track_updated_files.  db0 is the committed catalog when
\* the call began, ltg0 the cursor of the volume then, bad the files whose
\* path lookup failed in the call, noop the volume of a call that returned
\* at 218 without a tree search, yielded the keys of the headers the
\* searches of the call returned, in order.
NoScan == [vol |-> 0, top_generation |-> 0, min_generation |-> 0,
           min_key |-> <<0, 0, 0>>, db0 |-> EmptyCatalog, ltg0 |-> 0,
           bad |-> {}, noop |-> 0, yielded |-> << >>]

\* tracking.py:206-218: up to the first ioctl.
track_updated_files(v) ==
    /\ pc = "idle"
    /\ nops < MaxOps /\ nops' = nops + 1
    /\ v \in volfd
    /\ LET top_generation == rootgen[v]
           min_generation == min_generation_of(sess.vol[v])
       IN IF min_generation > top_generation
          THEN /\ db' = sess
               /\ sk' = [NoScan EXCEPT !.noop = v]
               /\ UNCHANGED pc
          ELSE /\ pc' = "scan"
               /\ sk' = [NoScan EXCEPT
                             !.vol = v, !.top_generation = top_generation,
                             !.min_generation = min_generation,
                             !.db0 = db,
                             !.ltg0 = sess.vol[v].last_tracked_generation]
               /\ UNCHANGED db
    /\ run' = NoRun
    /\ UNCHANGED <<fsys, rootgen, rlimit, sess, synchronous, volfd, clone, budget>>

\* tracking.py:244-312: one turn of the while loop whose ioctl returned
\* headers.  The path lookup of the inodes in bad fails.
track_batch(bad) ==
    /\ UNCHANGED nops
    /\ pc = "scan"
    /\ LET items == TreeSearch(sk.vol, sk.min_key, sk.min_generation, NR_ITEMS)
       IN /\ items # << >>
          /\ bad \subseteq {items[i].f : i \in 1..Len(items)}
          /\ Cardinality(bad) <= budget
          /\ budget' = budget - Cardinality(bad)
          /\ sess' = [sess EXCEPT !.inode =
                         scan_batch(@, items, sess.vol[sk.vol],
                                    sk.min_generation, bad)]
          /\ sk' = [sk EXCEPT !.min_key = next_min_key(items[Len(items)].key),
                               !.bad = @ \cup bad,
                               !.yielded = @ \o [i \in 1..Len(items) |->
                                                    items[i].key]]
    /\ UNCHANGED <<fsys, rootgen, rlimit, db, synchronous, volfd, pc, run, clone>>

\* tracking.py:313: the generation cursor a finished scan leaves.
track_cursor(top_generation, min_generation) == top_generation

\* tracking.py:253-254, 313-315: the ioctl returned no header.
track_end ==
    /\ UNCHANGED nops
    /\ pc = "scan"
    /\ TreeSearch(sk.vol, sk.min_key, sk.min_generation, NR_ITEMS) = << >>
    /\ sess' = [sess EXCEPT
                   !.vol[sk.vol].last_tracked_generation =
                       track_cursor(sk.top_generation, sk.min_generation),
                   !.vol[sk.vol].last_tracked_size_cutoff =
                       sess.vol[sk.vol].size_cutoff]
    /\ db' = sess'
    /\ pc' = "idle"
    /\ sk' = NoScan
    /\ UNCHANGED <<fsys, rootgen, rlimit, synchronous, volfd, run, clone, budget>>

\* An error path that commits the session.
ioctl_error_commit_session(committed, session) == session

\* tracking.py:247-251: what is committed when the ioctl raises IOError.
ioctl_error_commit(committed, session) == committed

track_ioctl_error ==
    /\ UNCHANGED nops
    /\ pc = "scan"
    /\ budget > 0
    /\ budget' = budget - 1
    /\ db' = ioctl_error_commit(db, sess)
    /\ pc' = "raised"
    /\ UNCHANGED <<fsys, rootgen, rlimit, sess, synchronous, volfd, sk, run, clone>>

(* --------------------------- dedup: helpers --------------------------- *)

Range(seq) == {seq[i] : i \in 1..Len(seq)}
Take(seq, n) == SubSeq(seq, 1, IF Len(seq) < n THEN Len(seq) ELSE n)
MaxOf(S) == CHOOSE x \in S : \A y \in S : y <= x
Larger(a, b) == IF a < b THEN b ELSE a

RECURSIVE Descending(_)
Descending(S) ==
    IF S = {} THEN << >> ELSE <<MaxOf(S)>> \o Descending(S \ {MaxOf(S)})

RECURSIVE Ascending(_)
Ascending(S) ==
    IF S = {} THEN << >>
    ELSE LET m == CHOOSE x \in S : \A y \in S : x <= y
         IN <<m>> \o Ascending(S \ {m})

\* Inode rows are listed in the order of their primary key (vol, ino).
RECURSIVE KeysInOrder(_)
KeysInOrder(S) ==
    IF S = {} THEN << >>
    ELSE LET m == CHOOSE x \in S : \A y \in S :
                      x[1] < y[1] \/ (x[1] = y[1] /\ x[2] <= y[2])
         IN <<m>> \o KeysInOrder(S \ {m})

\* comm_mappings: the Inode rows of the volume set that have a size, a
\* (size, mini_hash), and the groups Commonality1 (a size that two or more
\* rows have, one of them with has_updates), Commonality2 (a mini hash that
\* two or more rows of the size have) and Commonality3 (the rows of a
\* Commonality2 when they have two or more fiemap hashes between them).
InodesOfSize(cat, vol_ids, size) ==
    {k \in DOMAIN cat.inode : k[1] \in vol_ids /\ cat.inode[k].size = size}

InodesOfMiniHash(cat, vol_ids, size, h) ==
    {k \in InodesOfSize(cat, vol_ids, size) : cat.inode[k].mini_hash = h}

Commonality1(cat, vol_ids) ==
    {s \in {cat.inode[k].size : k \in DOMAIN cat.inode} :
        /\ Cardinality(InodesOfSize(cat, vol_ids, s)) >= 2
        /\ \E k \in InodesOfSize(cat, vol_ids, s) : cat.inode[k].has_updates}

Commonality2(cat, vol_ids, size) ==
    {h \in {cat.inode[k].mini_hash : k \in InodesOfSize(cat, vol_ids, size)} :
        h # None /\ Cardinality(InodesOfMiniHash(cat, vol_ids, size, h)) >= 2}

Commonality3(cat, vol_ids, size, h) ==
    LET ks == InodesOfMiniHash(cat, vol_ids, size, h)
    IN IF Cardinality({cat.inode[k].fiemap_hash : k \in ks}) >= 2
       THEN ks ELSE {}

\* Inode.mini_hash_from_file: a signature of a prefix of the content, and
\* hashlib.sha1 of the whole content.  Neither is injective: contents 0 and
\* 2 have both in common.
mini_hash_of(d) == d \div 3
sha1_of(d) == d % 2

\* Inode.fiemap_hash_from_file: a signature of the extents of the file.
fiemap_hash_of(fs, f) == fs.ext[f]

\* cmp_files: the two files have the same bytes.
cmp_files(fs, a, b) == fs.data[a] = fs.data[b]

\* ImmutableFDs.fds_in_write_use: the files another process has open for
\* writing.
fds_in_write_use(fs, fds) == {f \in fds : fs.writer[f]}

\* ImmutableFDs.__exit__: the immutable flag of the files whose flag
\* __enter__ set is cleared again.
immutable_exit(lock, revert) ==
    [f \in Files |-> IF f \in revert THEN "none" ELSE lock[f]]

\* Descriptors the process holds with n files open besides the reserved
\* ones.
Held(n) == OFILE_BASE + Cardinality(volfd) + n

\* tracking.py:358
ofile_reserved(vol_ids) == OFILE_BASE + Cardinality(vol_ids)

\* A cloner that does not look at the descriptor budget.
ofile_budget_unchecked(ofile_req, ofile_soft, ofile_hard) == "ok"

\* A budget that raises the soft limit whatever the hard limit is.
ofile_budget_ignores_hard(ofile_req, ofile_soft, ofile_hard) ==
    IF ofile_req > ofile_soft THEN "raise" ELSE "ok"

\* tracking.py:471-485: what the cloner does about the descriptor budget.
ofile_budget(ofile_req, ofile_soft, ofile_hard) ==
    IF ofile_req > ofile_soft
    THEN IF ofile_req <= ofile_hard THEN "raise" ELSE "defer"
    ELSE "ok"

\* A comparison that selects every size.
in_window_any(size, window_start, window_end, clause) == TRUE

\* A comparison that selects the sizes from window_end to window_start.
in_window_two_sided(size, window_start, window_end, clause) ==
    window_start >= size /\ size >= window_end

\* tracking.py:369: the rows the chained comparison
\* window_start >= Inode.size >= window_end selects.  Python evaluates it as
\* (window_start >= Inode.size) and (Inode.size >= window_end); of two SQL
\* expressions that is the second one when the first is truthy ("lower").
in_window(size, window_start, window_end, clause) ==
    IF clause = "lower" THEN size >= window_end
    ELSE window_start >= size /\ size >= window_end

\* A clear_updates without the filter on the volumes.
clear_updates_any_volume(cat, vol_ids, skipped, window_start, window_end, clause) ==
    [cat EXCEPT !.inode = [k \in DOMAIN @ |->
        IF k \in skipped THEN [@[k] EXCEPT !.has_updates = TRUE]
        ELSE IF in_window(@[k].size, window_start, window_end, clause)
        THEN [@[k] EXCEPT !.has_updates = FALSE]
        ELSE @[k]]]

\* tracking.py:364-377
clear_updates(cat, vol_ids, skipped, window_start, window_end, clause) ==
    [cat EXCEPT !.inode = [k \in DOMAIN @ |->
        IF k \in skipped THEN [@[k] EXCEPT !.has_updates = TRUE]
        ELSE IF k[1] \in vol_ids
                /\ in_window(@[k].size, window_start, window_end, clause)
        THEN [@[k] EXCEPT !.has_updates = FALSE]
        ELSE @[k]]]

\* tracking.py:324: one window of groups, largest size first.
window_li(cat, vol_ids, window_start) ==
    Take(Descending({s \in Commonality1(cat, vol_ids) : s <= window_start}),
         WINDOW_SIZE)

\* An event of another process, or an I/O error, that strikes while the
\* process handles the inode `at`.
NoRace == [at |-> <<0, 0>>, kind |-> "none", by |-> 0]

Races(kinds) ==
    {NoRace} \cup
    {[at |-> k, kind |-> kd, by |-> g] :
        k \in Keys, kd \in kinds \ {"rename"}, g \in {0}} \cup
    {[at |-> k, kind |-> kd, by |-> g] :
        k \in Keys, kd \in kinds \cap {"rename"}, g \in Files}

\* The race can happen: the inode is one of keys and has a path; a file
\* that is unlinked or renamed over is not immutable; the file renamed is
\* another regular file of the subvolume.
RaceOk(race, keys) ==
    \/ race = NoRace
    \/ /\ race.kind # "none"
       /\ budget > 0
       /\ race.at \in keys
       /\ LET p == PathOfIno(fsys, race.at[1], race.at[2])
          IN /\ p # 0
             /\ race.kind \in {"unlink", "rename"} =>
                    fsys.lock[FileAt(fsys, p)] = "none"
             /\ race.kind = "rename" =>
                    /\ Linked(race.by) /\ FileReg[race.by]
                    /\ FileVol[race.by] = race.at[1]
                    /\ race.by # FileAt(fsys, p)
                    /\ fsys.lock[race.by] = "none"

RaceCost(race) == IF race = NoRace THEN 0 ELSE 1

\* The filesystem after the race on the file at path p, which strikes
\* between the path lookup and the open.
raced(fs, p, race) ==
    LET old == FileAt(fs, p)
    IN IF race.kind = "unlink" THEN [fs EXCEPT !.path[old] = 0]
       ELSE IF race.kind = "rename"
       THEN [fs EXCEPT !.path = [f \in Files |->
                IF f = old THEN 0 ELSE IF f = race.by THEN p ELSE @[f]]]
       ELSE fs

raced_gen(gens, race) ==
    IF race.kind \in {"unlink", "rename"}
    THEN [gens EXCEPT ![race.at[1]] = @ + 1] ELSE gens

set_hash(row, stage, h) ==
    IF stage = "mini_hash" THEN [row EXCEPT !.mini_hash = h]
    ELSE [row EXCEPT !.fiemap_hash = h]

\* tracking.py:414-441 and 446-455: the loop of a hashing stage over the
\* inodes keys.  st: the Inode rows, the filesystem, whether an exception
\* left the loop, the most descriptors held.
RECURSIVE hash_pass(_, _, _, _, _)
hash_pass(st, keys, stage, race, ofile_soft) ==
    IF keys = << >> \/ st.raised THEN st
    ELSE LET k == Head(keys)
             hit == race.at = k
             p == PathOfIno(st.fs, k[1], k[2])
             fs1 == IF hit /\ p # 0 THEN raced(st.fs, p, race) ELSE st.fs
             rfile == FileAt(fs1, p)
             next ==
                 IF hit /\ race.kind = "EIO"
                 THEN [st EXCEPT !.raised = TRUE]
                 ELSE IF p = 0
                 THEN [st EXCEPT !.inode = Drop(@, {k})]
                 ELSE IF rfile = 0 \/ Held(1) > ofile_soft
                 THEN [st EXCEPT !.fs = fs1, !.raised = TRUE]
                 ELSE [st EXCEPT
                          !.fs = fs1,
                          !.peak = Larger(@, Held(1)),
                          !.misread = IF <<FileVol[rfile], FileIno[rfile]>> # k
                                      THEN @ \cup {k} ELSE @,
                          !.inode[k] = set_hash(@, stage,
                              IF stage = "mini_hash"
                              THEN mini_hash_of(fs1.data[rfile])
                              ELSE fiemap_hash_of(fs1, rfile))]
         IN hash_pass(next, Tail(keys), stage, race, ofile_soft)

\* tracking.py:487-526: the loop that opens the inodes of comm3.
RECURSIVE open_pass(_, _, _, _)
open_pass(st, keys, race, ofile_soft) ==
    IF keys = << >> \/ st.raised THEN st
    ELSE LET k == Head(keys)
             hit == race.at = k
             p == PathOfIno(st.fs, k[1], k[2])
             fs1 == IF hit /\ p # 0 THEN raced(st.fs, p, race) ELSE st.fs
             afile == FileAt(fs1, p)
             skip == [st EXCEPT !.fs = fs1, !.skipped = @ \cup {k}]
             next ==
                 IF hit /\ race.kind = "EIO"
                 THEN [st EXCEPT !.raised = TRUE]
                 ELSE IF p = 0
                 THEN [st EXCEPT !.inode = Drop(@, {k})]
                 ELSE IF hit /\ race.kind \in {"ETXTBSY", "EACCES"}
                 THEN skip
                 ELSE IF afile = 0 THEN [skip EXCEPT !.enoent = @ \cup {k}]
                 ELSE IF fs1.lock[afile] # "none" THEN skip
                 ELSE IF Held(Len(st.files) + 1) > ofile_soft
                 THEN [st EXCEPT !.fs = fs1, !.raised = TRUE]
                 ELSE [st EXCEPT
                          !.fs = fs1,
                          !.peak = Larger(@, Held(Len(st.files) + 1)),
                          !.files = Append(@, afile),
                          !.keys = Append(@, k)]
         IN open_pass(next, Tail(keys), race, ofile_soft)

\* A test that finds no descriptor in write use.
fd_in_write_use_never(fd, fds) == FALSE

\* tracking.py:537: fd in immutability.fds_in_write_use
fd_in_write_use(fd, fds) == fd \in fds

\* A length check that lets every length through.
length_check_unchecked(size, group_size, size_cutoff) == "ok"

\* tracking.py:554-562: what the clone stage does with a file of the length
\* size in a group of group_size.
length_check(size, group_size, size_cutoff) ==
    IF size # group_size
    THEN IF size < size_cutoff THEN "delete" ELSE "skip"
    ELSE "ok"

\* tracking.py:534-564: the loop that hashes the opened files.  The read
\* of file number fault raises IOError.  st: the Inode rows, skipped,
\* by_hash (digest -> indexes into files), whether an exception left the
\* loop.
RECURSIVE hash_files(_, _, _)
hash_files(st, i, fault) ==
    IF i > Len(run.files) \/ st.raised THEN st
    ELSE LET afile == run.files[i]
             k == run.keys[i]
             digest == sha1_of(fsys.data[afile])
             size == fsys.size[afile]
             skip == [st EXCEPT !.skipped = @ \cup {k}]
             next ==
                 IF fd_in_write_use(afile, run.in_write_use) THEN skip
                 ELSE IF fault = i THEN [st EXCEPT !.raised = TRUE]
                 ELSE IF FileIno[afile] # k[2] THEN skip
                 ELSE IF FileVol[afile] # k[1] THEN skip
                 ELSE IF length_check(size, run.size,
                                      sess.vol[k[1]].size_cutoff) = "delete"
                 THEN [st EXCEPT !.inode = Drop(@, {k})]
                 ELSE IF length_check(size, run.size,
                                      sess.vol[k[1]].size_cutoff) = "skip"
                 THEN skip
                 ELSE [st EXCEPT !.by_hash = Put(@, digest,
                          IF digest \in DOMAIN @ THEN Append(@[digest], i)
                          ELSE <<i>>)]
         IN hash_files(next, i + 1, fault)

\* tracking.py:566-568: the values of by_hash that have two files or more.
RECURSIVE filesets_of(_, _)
filesets_of(by_hash, digests) ==
    IF digests = << >> THEN << >>
    ELSE (IF Len(by_hash[Head(digests)]) < 2 THEN << >>
          ELSE <<by_hash[Head(digests)]>>)
         \o filesets_of(by_hash, Tail(digests))

(* --------------------------- dedup_tracked ---------------------------- *)

\* tracking.py:350-392.  With no Commonality1 group the call only commits.
\* Otherwise it goes on to the generator and dedup_tracked1 (up to the for
\* loop): the call at 387-389 passes clear_updates, the parameter of the
\* windowed_query of 318-332.
dedup_tracked(vol_ids, clause, optimize) ==
    /\ pc = "idle"
    /\ nops < MaxOps /\ nops' = nops + 1
    /\ vol_ids # {} /\ vol_ids \subseteq volfd
    /\ LET le == Cardinality(Commonality1(sess, vol_ids))
           r0 == [NoRun EXCEPT !.volset = vol_ids,
                               !.reserved = ofile_reserved(vol_ids),
                               !.second = run.returned /\ run.volset = vol_ids,
                               !.now0 = clone.now,
                               !.events0 = Len(sess.events),
                               !.flagged0 = {k \in DOMAIN sess.inode :
                                                sess.inode[k].has_updates},
                               !.groups0 = Commonality1(sess, vol_ids)]
       IN IF le = 0
          THEN /\ db' = sess
               /\ run' = [r0 EXCEPT !.returned = TRUE]
               /\ UNCHANGED <<pc, synchronous>>
          ELSE /\ run' = [r0 EXCEPT
                     !.window_start =
                         MaxOf({sess.inode[k].size : k \in DOMAIN sess.inode}),
                     !.soft = rlimit.soft, !.hard = rlimit.hard,
                     !.clause = clause, !.optimize = optimize,
                     !.peak = Held(0)]
               /\ synchronous' = "NORMAL"
               /\ pc' = "gen"
               /\ UNCHANGED db
    /\ UNCHANGED <<fsys, rootgen, rlimit, sess, volfd, sk, clone, budget>>

\* tracking.py:335-347, 387-389: the name windowed_query is bound to the
\* second definition of the module, which has no parameter clear_updates,
\* so the call raises TypeError.
dedup_tracked_type_error(vol_ids) ==
    /\ pc = "idle"
    /\ nops < MaxOps /\ nops' = nops + 1
    /\ vol_ids # {} /\ vol_ids \subseteq volfd
    /\ Cardinality(Commonality1(sess, vol_ids)) > 0
    /\ run' = [NoRun EXCEPT !.volset = vol_ids,
                            !.reserved = ofile_reserved(vol_ids)]
    /\ pc' = "raised"
    /\ UNCHANGED <<fsys, rootgen, rlimit, db, sess, synchronous, volfd, sk,
                   clone, budget>>

\* A next window that starts at the end of the last one.
next_window_start_same(window_end) == window_end

\* tracking.py:331: window_start = window_end - 1
next_window_start(window_end) == window_end - 1

\* tracking.py:318-332, 408, 604-611, 392: dedup_tracked1 asks the generator
\* for the next group.  The generator yields the next group of the window,
\* or ends the window (clear_updates), queries the next one and yields its
\* first group, or, with no group left, calls clear_updates a last time and
\* returns, upon which dedup_tracked1 and dedup_tracked finish.
windowed_query_next ==
    /\ UNCHANGED nops
    /\ pc = "gen"
    /\ IF run.li # << >>
       THEN /\ run' = [run EXCEPT !.el = Head(run.li), !.size = Head(run.li),
                                  !.li = Tail(run.li),
                                  !.yielded = @ \cup {Head(run.li)}]
            /\ pc' = "mini"
            /\ UNCHANGED <<db, sess, synchronous>>
       ELSE IF run.el # None /\ run.clause = "raise"
       THEN /\ pc' = "raised"
            /\ UNCHANGED <<db, sess, synchronous, run>>
       ELSE LET ended == run.el # None
                cat1 == IF ended
                        THEN clear_updates(sess, run.volset, run.skipped,
                                 run.window_start, run.el, run.clause)
                        ELSE sess
                db1 == IF ended THEN cat1 ELSE db
                skipped1 == IF ended THEN {} ELSE run.skipped
                window_start == IF ended THEN next_window_start(run.el)
                                ELSE run.window_start
                li == window_li(cat1, run.volset, window_start)
            IN IF li # << >>
               THEN /\ run' = [run EXCEPT !.window_start = window_start,
                                  !.skipped = skipped1,
                                  !.el = Head(li), !.size = Head(li),
                                  !.li = Tail(li),
                                  !.yielded = @ \cup {Head(li)}]
                    /\ sess' = cat1
                    /\ db' = db1
                    /\ pc' = "mini"
                    /\ UNCHANGED synchronous
               ELSE IF run.clause = "raise"
               THEN /\ run' = [run EXCEPT !.window_start = window_start,
                                  !.skipped = skipped1, !.el = None]
                    /\ sess' = cat1
                    /\ db' = db1
                    /\ pc' = "raised"
                    /\ UNCHANGED synchronous
               ELSE /\ run' = [run EXCEPT !.window_start = window_start,
                                  !.skipped = {}, !.el = None,
                                  !.returned = TRUE]
                    /\ sess' = clear_updates(cat1, run.volset, skipped1,
                                   window_start, 0, run.clause)
                    /\ db' = sess'
                    /\ synchronous' = "FULL"
                    /\ pc' = "idle"
    /\ UNCHANGED <<fsys, rootgen, rlimit, volfd, sk, clone, budget>>

\* Where dedup_tracked1 goes on after a comm2: the next comm2 of the group,
\* or the next group.
after_comm2(comm2s) == IF comm2s # << >> THEN "fiemap" ELSE "gen"

\* tracking.py:414-443: the mini-hash loop over comm1.inodes, then
\* comm1.comm2 is loaded.
mini_hash_stage(race) ==
    /\ UNCHANGED nops
    /\ pc = "mini"
    /\ LET keys == KeysInOrder(InodesOfSize(sess, run.volset, run.size))
           st == hash_pass([inode |-> sess.inode, fs |-> fsys,
                            raised |-> FALSE, peak |-> run.peak,
                            misread |-> run.misread],
                           keys, "mini_hash", race, rlimit.soft)
           cat == [sess EXCEPT !.inode = st.inode]
           comm2 == Ascending(Commonality2(cat, run.volset, run.size))
       IN /\ RaceOk(race, Range(keys))
          /\ budget' = budget - RaceCost(race)
          /\ fsys' = st.fs
          /\ rootgen' = raced_gen(rootgen, race)
          /\ sess' = cat
          /\ IF st.raised
             THEN /\ run' = [run EXCEPT !.peak = st.peak, !.misread = st.misread]
                  /\ pc' = "raised"
             ELSE /\ run' = [run EXCEPT !.peak = st.peak, !.misread = st.misread, !.comm2s = comm2]
                  /\ pc' = after_comm2(comm2)
    /\ UNCHANGED <<rlimit, db, synchronous, volfd, sk, clone>>

\* tracking.py:443-485: the next comm2 of the group: the fiemap-hash loop
\* over comm2.inodes, comm2.comm3, and the descriptor budget.
fiemap_hash_stage(race) ==
    /\ UNCHANGED nops
    /\ pc = "fiemap"
    /\ LET h == Head(run.comm2s)
           rest == Tail(run.comm2s)
           keys == KeysInOrder(InodesOfMiniHash(sess, run.volset, run.size, h))
           st == hash_pass([inode |-> sess.inode, fs |-> fsys,
                            raised |-> FALSE, peak |-> run.peak,
                            misread |-> run.misread],
                           keys, "fiemap_hash", race, rlimit.soft)
           cat == [sess EXCEPT !.inode = st.inode]
           comm3 == KeysInOrder(Commonality3(cat, run.volset, run.size, h))
           count3 == Len(comm3)
           ofile_req == 2 * count3 + run.reserved
           budgeted == ofile_budget(ofile_req, run.soft, run.hard)
           flagged == {k \in Range(comm3) : cat.inode[k].has_updates}
       IN /\ RaceOk(race, Range(keys))
          /\ budget' = budget - RaceCost(race)
          /\ fsys' = st.fs
          /\ rootgen' = raced_gen(rootgen, race)
          /\ sess' = cat
          /\ IF st.raised
             THEN /\ run' = [run EXCEPT !.peak = st.peak, !.misread = st.misread]
                  /\ pc' = "raised"
                  /\ UNCHANGED rlimit
             ELSE IF comm3 = << >>
             THEN /\ run' = [run EXCEPT !.peak = st.peak, !.misread = st.misread, !.comm2s = rest]
                  /\ pc' = after_comm2(rest)
                  /\ UNCHANGED rlimit
             ELSE IF budgeted = "defer"
             THEN /\ run' = [run EXCEPT !.peak = st.peak, !.misread = st.misread, !.comm2s = rest,
                                !.inodes = comm3, !.count3 = count3,
                                !.skipped = @ \cup flagged,
                                !.deferred = @ \cup flagged,
                                !.overbudget = @ \cup Range(comm3)]
                  /\ pc' = after_comm2(rest)
                  /\ UNCHANGED rlimit
             ELSE /\ run' = [run EXCEPT !.peak = st.peak, !.misread = st.misread, !.comm2s = rest,
                                !.inodes = comm3, !.count3 = count3,
                                !.soft = IF budgeted = "raise"
                                         THEN ofile_req ELSE @,
                                !.files = << >>, !.keys = << >>]
                  /\ rlimit' = IF budgeted = "raise"
                               THEN [rlimit EXCEPT !.soft = ofile_req]
                               ELSE rlimit
                  /\ pc' = "open"
    /\ UNCHANGED <<db, synchronous, volfd, sk, clone>>

\* tracking.py:487-526
cloner_open(race) ==
    /\ UNCHANGED nops
    /\ pc = "open"
    /\ LET st == open_pass([inode |-> sess.inode, fs |-> fsys,
                            raised |-> FALSE, peak |-> run.peak,
                            files |-> << >>, keys |-> << >>, skipped |-> {},
                            enoent |-> {}],
                           run.inodes, race, rlimit.soft)
       IN /\ RaceOk(race, Range(run.inodes))
          /\ budget' = budget - RaceCost(race)
          /\ fsys' = st.fs
          /\ rootgen' = raced_gen(rootgen, race)
          /\ sess' = [sess EXCEPT !.inode = st.inode]
          /\ run' = [run EXCEPT !.peak = st.peak,
                                !.enoent = @ \cup st.enoent,
                                !.files = st.files, !.keys = st.keys,
                                !.skipped = @ \cup st.skipped,
                                !.deferred = @ \cup st.skipped]
          /\ pc' = IF st.raised THEN "raised" ELSE "enter"
    /\ UNCHANGED <<rlimit, db, synchronous, volfd, sk, clone>>

\* tracking.py:528-532: the files enter the ExitStack, ImmutableFDs last.
\* ImmutableFDs.__enter__ sets the immutable flag of the files that do not
\* have it and finds the files in write use.
immutable_enter ==
    /\ UNCHANGED nops
    /\ pc = "enter"
    /\ LET fds == Range(run.files)
           revert == {f \in fds : fsys.lock[f] = "none"}
       IN /\ fsys' = [fsys EXCEPT !.lock = [f \in Files |->
                         IF f \in revert THEN "bedup" ELSE @[f]]]
          /\ run' = [run EXCEPT !.revert = revert,
                                !.in_write_use = fds_in_write_use(fsys, fds)]
    /\ pc' = "hash"
    /\ UNCHANGED <<rootgen, rlimit, db, sess, synchronous, volfd, sk, clone,
                   budget>>

\* A block that is left without ImmutableFDs.__exit__.
exit_block_fs_leak(fs, revert) == fs

\* The with block of 528 is left: ImmutableFDs.__exit__, and the files are
\* closed.
exit_block_fs(fs, revert) == [fs EXCEPT !.lock = immutable_exit(@, revert)]

exit_block_run(r, how) ==
    [r EXCEPT !.files = << >>, !.keys = << >>, !.revert = {},
              !.in_write_use = {}, !.filesets = << >>, !.dpos = 0,
              !.ok = << >>, !.same = {}, !.block = how]

\* tracking.py:534-568: the files are hashed; with no fileset of two files
\* the block is left.
cloner_hash(fault) ==
    /\ UNCHANGED nops
    /\ pc = "hash"
    /\ fault \in 0..Len(run.files)
    /\ fault # 0 => budget > 0 /\ run.files[fault] \notin run.in_write_use
    /\ budget' = IF fault # 0 THEN budget - 1 ELSE budget
    /\ LET st == hash_files([inode |-> sess.inode, skipped |-> {},
                             by_hash |-> << >>, raised |-> FALSE], 1, fault)
           filesets == filesets_of(st.by_hash, Ascending(DOMAIN st.by_hash))
           r1 == [run EXCEPT !.skipped = @ \cup st.skipped,
                             !.deferred = @ \cup st.skipped]
       IN /\ sess' = [sess EXCEPT !.inode = st.inode]
          /\ IF st.raised
             THEN /\ run' = exit_block_run(r1, "raised")
                  /\ fsys' = exit_block_fs(fsys, run.revert)
                  /\ pc' = "raised"
                  /\ UNCHANGED clone
             ELSE IF filesets = << >>
             THEN /\ run' = exit_block_run(r1, "returned")
                  /\ fsys' = exit_block_fs(fsys, run.revert)
                  /\ pc' = after_comm2(run.comm2s)
                  /\ UNCHANGED clone
             ELSE /\ run' = [r1 EXCEPT !.filesets = filesets, !.dpos = 2,
                                       !.ok = << >>, !.same = {}]
                  /\ clone' = [clone EXCEPT !.now = @ + 1]
                  /\ pc' = "cmp"
                  /\ UNCHANGED fsys
    /\ UNCHANGED <<rootgen, rlimit, db, synchronous, volfd, sk>>

\* An event for every fileset.
adds_event_always(dfiles_successful) == TRUE

\* tracking.py:593: whether the fileset gets a DedupEvent.
adds_event(dfiles_successful) == dfiles_successful # << >>

\* tracking.py:594-601: the DedupEvent with its DedupEventInode rows, for
\* sfile and the dfiles_successful.  created is the time of the clock that
\* ticks once for every fileset.
DedupEvent(r, fileset, created) ==
    [item_size |-> r.size, created |-> created,
     inodes |-> [i \in 1..(1 + Len(r.ok)) |->
                    IF i = 1 THEN r.keys[fileset[1]] ELSE r.keys[r.ok[i - 1]]]]

\* tracking.py:577, 593-602, 566: on to the next dfile; after the last one
\* the event is added and committed, and it is on to the next fileset;
\* after the last one the block is left.
next_dfile(r, fs, cl) ==
    LET fileset == Head(r.filesets)
        rest == Tail(r.filesets)
        evt == adds_event(r.ok)
    IN IF r.dpos < Len(fileset)
       THEN /\ run' = [r EXCEPT !.dpos = @ + 1]
            /\ fsys' = fs
            /\ clone' = cl
            /\ pc' = "cmp"
            /\ UNCHANGED <<sess, db>>
       ELSE /\ sess' = IF evt
                       THEN [sess EXCEPT !.events =
                                Append(@, DedupEvent(r, fileset, cl.now))]
                       ELSE sess
            /\ db' = IF evt THEN sess' ELSE db
            /\ IF rest # << >>
               THEN /\ run' = [r EXCEPT !.filesets = rest, !.dpos = 2,
                                        !.ok = << >>, !.same = {}]
                    /\ fsys' = fs
                    /\ clone' = [cl EXCEPT !.now = @ + 1]
                    /\ pc' = "cmp"
               ELSE /\ run' = exit_block_run(r, "returned")
                    /\ fsys' = exit_block_fs(fs, r.revert)
                    /\ clone' = cl
                    /\ pc' = after_comm2(r.comm2s)

\* A comparison that never finds a difference.
files_differ_never(fs, sfile, dfile) == FALSE

\* tracking.py:581
files_differ(fs, sfile, dfile) == ~cmp_files(fs, sfile, dfile)

\* tracking.py:577-585: cmp_files of sfile and the next dfile.
cloner_cmp ==
    /\ UNCHANGED nops
    /\ pc = "cmp"
    /\ LET fileset == Head(run.filesets)
           sfile == run.files[fileset[1]]
           dfile == run.files[fileset[run.dpos]]
       IN IF ~files_differ(fsys, sfile, dfile)
          THEN /\ pc' = "clone"
               /\ UNCHANGED <<fsys, db, sess, run, clone>>
          ELSE IF run.optimize
          THEN next_dfile(run, fsys, clone)
          ELSE /\ run' = exit_block_run(run, "raised")
               /\ fsys' = exit_block_fs(fsys, run.revert)
               /\ pc' = "raised"
               /\ UNCHANGED <<db, sess, clone>>
    /\ UNCHANGED <<rootgen, rlimit, synchronous, volfd, sk, budget>>

\* tracking.py:586-592: clone_data(dest, src, check_first=True).  It
\* raises IOError (fault), returns False when dest has the extents of src
\* already, or gives dest the extents of src and returns True.
cloner_clone(fault) ==
    /\ UNCHANGED nops
    /\ pc = "clone"
    /\ fault => budget > 0
    /\ budget' = IF fault THEN budget - 1 ELSE budget
    /\ LET fileset == Head(run.filesets)
           si == fileset[1]
           di == fileset[run.dpos]
           sfile == run.files[si]
           dfile == run.files[di]
           shared == fsys.ext[sfile] = fsys.ext[dfile]
           gen == rootgen[FileVol[dfile]] + 1
           checks ==
               /\ \A f \in {sfile, dfile} :
                      /\ fsys.lock[f] # "none"
                      /\ f \notin run.in_write_use
                      /\ fsys.size[f] = run.size
               /\ \A i \in {si, di} :
                      /\ FileIno[run.files[i]] = run.keys[i][2]
                      /\ FileVol[run.files[i]] = run.keys[i][1]
               /\ sha1_of(fsys.data[sfile]) = sha1_of(fsys.data[dfile])
           cl == [clone EXCEPT
                     !.src = sfile, !.dest = dfile, !.checked = checks,
                     !.same_bytes = fsys.data[sfile] = fsys.data[dfile],
                     !.results = @ \cup {[at |-> clone.now,
                                          src |-> run.keys[si],
                                          dest |-> run.keys[di],
                                          returned |-> ~shared]}]
       IN IF fault
          THEN /\ run' = exit_block_run(run, "raised")
               /\ fsys' = exit_block_fs(fsys, run.revert)
               /\ pc' = "raised"
               /\ UNCHANGED <<db, sess, clone, rootgen>>
          ELSE IF shared
          THEN /\ next_dfile([run EXCEPT !.same = @ \cup {di}], fsys, cl)
               /\ UNCHANGED rootgen
          ELSE /\ next_dfile([run EXCEPT !.ok = Append(@, di)],
                     [fsys EXCEPT !.ext[dfile] = fsys.ext[sfile],
                                  !.data[dfile] = fsys.data[sfile],
                                  !.transid[dfile] = gen],
                     cl)
               /\ rootgen' = [rootgen EXCEPT ![FileVol[dfile]] = gen]
    /\ UNCHANGED <<rlimit, synchronous, volfd, sk>>

(* --------------------------- other processes -------------------------- *)

\* A file can be written by a process that holds it open for writing, or by
\* anyone while it is not immutable.
Writable(f) == fsys.writer[f] \/ fsys.lock[f] = "none"

\* Another process rewrites file f to size s with content d.
ext_write(f, s, d) ==
    /\ UNCHANGED nops
    /\ budget > 0
    /\ Linked(f) /\ FileReg[f] /\ Writable(f)
    /\ <<s, d>> # <<fsys.size[f], fsys.data[f]>>
    /\ budget' = budget - 1
    /\ rootgen' = [rootgen EXCEPT ![FileVol[f]] = @ + 1]
    /\ fsys' = [fsys EXCEPT !.size[f] = s, !.data[f] = d,
                            !.ext[f] = FreshExt(f),
                            !.transid[f] = rootgen[FileVol[f]] + 1]
    /\ UNCHANGED <<rlimit, db, sess, synchronous, volfd, pc, sk, run, clone>>

\* Another process opens file f for writing and keeps it open.
ext_open_writer(f) ==
    /\ UNCHANGED nops
    /\ budget > 0
    /\ Linked(f) /\ FileReg[f] /\ fsys.lock[f] = "none" /\ ~fsys.writer[f]
    /\ budget' = budget - 1
    /\ fsys' = [fsys EXCEPT !.writer[f] = TRUE]
    /\ UNCHANGED <<rootgen, rlimit, db, sess, synchronous, volfd, pc, sk, run,
                   clone>>

\* Another process sets the immutable flag of file f.
ext_chattr(f) ==
    /\ UNCHANGED nops
    /\ budget > 0
    /\ Linked(f) /\ FileReg[f] /\ fsys.lock[f] = "none"
    /\ budget' = budget - 1
    /\ fsys' = [fsys EXCEPT !.lock[f] = "ext"]
    /\ UNCHANGED <<rootgen, rlimit, db, sess, synchronous, volfd, pc, sk, run,
                   clone>>

\* Files the process holds open.
OpenFiles == {run.files[i] : i \in 1..Len(run.files)}

\* Another process unlinks file f.
ext_unlink(f) ==
    /\ UNCHANGED nops
    /\ budget > 0
    /\ Linked(f) /\ FileReg[f] /\ fsys.lock[f] = "none"
    /\ budget' = budget - 1
    /\ rootgen' = [rootgen EXCEPT ![FileVol[f]] = @ + 1]
    /\ fsys' = [fsys EXCEPT !.path[f] = 0]
    /\ UNCHANGED <<rlimit, db, sess, synchronous, volfd, pc, sk, run, clone>>

\* Another process creates a file under the inode number and name of f.
ext_create(f, s, d) ==
    /\ UNCHANGED nops
    /\ budget > 0
    /\ ~Linked(f) /\ FileReg[f] /\ f \notin OpenFiles
    /\ FileAtPath(f) = 0
    /\ budget' = budget - 1
    /\ rootgen' = [rootgen EXCEPT ![FileVol[f]] = @ + 1]
    /\ fsys' = [fsys EXCEPT !.path[f] = f, !.size[f] = s, !.data[f] = d,
                            !.ext[f] = FreshExt(f),
                            !.gen[f] = rootgen[FileVol[f]] + 1,
                            !.transid[f] = rootgen[FileVol[f]] + 1,
                            !.lock[f] = "none", !.writer[f] = FALSE]
    /\ UNCHANGED <<rlimit, db, sess, synchronous, volfd, pc, sk, run, clone>>

\* Another process unlinks file f, which nobody holds open, and creates a
\* file of the same length and contents under its name; the new file gets
\* the inode number of the old one.
ext_reuse(f) ==
    /\ UNCHANGED nops
    /\ budget > 0
    /\ Linked(f) /\ FileReg[f] /\ fsys.lock[f] = "none"
    /\ f \notin OpenFiles /\ ~fsys.writer[f]
    /\ budget' = budget - 1
    /\ rootgen' = [rootgen EXCEPT ![FileVol[f]] = @ + 1]
    /\ fsys' = [fsys EXCEPT !.ext[f] = FreshExt(f),
                            !.gen[f] = rootgen[FileVol[f]] + 1,
                            !.transid[f] = rootgen[FileVol[f]] + 1]
    /\ UNCHANGED <<rlimit, db, sess, synchronous, volfd, pc, sk, run, clone>>

(* ------------------------------ process ------------------------------- *)

\* The process ends (after an operation, or on an exception that left one)
\* and a new one starts: uncommitted changes of the session are lost, the
\* volume descriptors are closed.
exit_process ==
    /\ UNCHANGED nops
    /\ pc \in {"idle", "raised"}
    /\ pc = "idle" => (sess # db \/ volfd # {})
    /\ pc' = "idle"
    /\ sess' = db
    /\ volfd' = {}
    /\ synchronous' = "FULL"
    /\ rlimit' = [rlimit EXCEPT !.soft = rlimit.soft0]
    /\ sk' = NoScan
    /\ run' = NoRun
    /\ UNCHANGED <<fsys, rootgen, db, clone, budget>>

InitFiles(sizes, data, ext, writers) ==
    /\ fsys = [path |-> [f \in Files |-> f],
               size |-> sizes,
               data |-> data,
               ext |-> ext,
               gen |-> [f \in Files |-> 1],
               transid |-> [f \in Files |-> 1],
               lock |-> [f \in Files |-> "none"],
               writer |-> [f \in Files |-> f \in writers]]
    /\ rootgen = [v \in Vols |-> 1]

InitProcess ==
    /\ clone = NoClone
    /\ db = EmptyCatalog
    /\ sess = EmptyCatalog
    /\ synchronous = "FULL"
    /\ volfd = {}
    /\ pc = "idle"
    /\ sk = NoScan
    /\ run = NoRun

InitScan ==
    /\ InitFiles(<<3, 2, 3, 3, 3>>, [f \in Files |-> 0], [f \in Files |-> f],
                 {})
    /\ rlimit = [soft |-> 16, hard |-> 16, soft0 |-> 16]
    /\ InitProcess
    /\ budget = MaxExt
    /\ nops = 0

\* The scanner on volume 1, whose files other processes resize, unlink and
\* create.
ScanFiles == {f \in Files : FileVol[f] = 1}

NextScan ==
    \/ \E c \in CutoffArgs : get_vol(1, c)
    \/ forget_vol(1)
    \/ track_updated_files(1)
    \/ \E bad \in {{}} \cup {{f} : f \in ScanFiles} : track_batch(bad)
    \/ track_end
    \/ track_ioctl_error
    \/ exit_process
    \/ \E f \in ScanFiles, s \in Sizes : ext_write(f, s, 0)
    \/ \E f \in ScanFiles : ext_unlink(f)
    \/ \E f \in ScanFiles, s \in Sizes : ext_create(f, s, 0)

SpecScan == InitScan /\ [][NextScan]_vars

\* Scans and dedup runs over both volumes.  Files 1, 2 and 3 have one
\* size, and file 5 a smaller one; file 2 starts with any content, the other
\* files with content 0, and files 1 and 2 may share their extents already.
\* Or the files of volume 2 are both smaller than those of volume 1, or the
\* four files have one size.  Another process may have file 2 open for
\* writing from the start.  Other processes act while a dedup run is under
\* way.
InitDedup ==
    /\ \E d \in Data, shared \in BOOLEAN, writers \in {{}, {2}},
          sizes \in {<<3, 3, 3, 3, 2>>, <<3, 3, 2, 3, 2>>, <<3, 3, 3, 3, 3>>} :
          /\ shared => d = 0
          /\ sizes # <<3, 3, 3, 3, 2>> => d = 0 /\ ~shared
          /\ writers # {} => sizes = <<3, 3, 3, 3, 2>> /\ d = 0 /\ ~shared
          /\ InitFiles(sizes, [f \in Files |-> IF f = 2 THEN d ELSE 0],
                       [f \in Files |-> IF f = 2 /\ shared THEN 1 ELSE f],
                       writers)
    /\ rlimit = [soft |-> 12, hard |-> 15, soft0 |-> 12]
    /\ InitProcess
    /\ budget = MaxRace
    /\ nops = 0

RegFiles == {f \in Files : FileReg[f]}
Clauses == {"lower", "raise"}
HashRaces == Races({"unlink", "rename", "EIO"})
OpenRaces == Races({"unlink", "rename", "EIO", "ETXTBSY", "EACCES"})
InDedup == pc \notin {"idle", "scan", "raised"}

NextDedup ==
    \/ \E v \in Vols : get_vol(v, None)
    \/ \E v \in Vols : forget_vol(v)
    \/ \E v \in Vols : track_updated_files(v)
    \/ track_batch({})
    \/ track_end
    \/ \E vol_ids \in {{1}, {1, 2}}, clause \in Clauses, optimize \in BOOLEAN :
          dedup_tracked(vol_ids, clause, optimize)
    \/ \E vol_ids \in {{1}, {1, 2}} : dedup_tracked_type_error(vol_ids)
    \/ windowed_query_next
    \/ \E race \in HashRaces : mini_hash_stage(race)
    \/ \E race \in HashRaces : fiemap_hash_stage(race)
    \/ \E race \in OpenRaces : cloner_open(race)
    \/ immutable_enter
    \/ \E fault \in 0..Cardinality(Files) : cloner_hash(fault)
    \/ cloner_cmp
    \/ \E fault \in BOOLEAN : cloner_clone(fault)
    \/ exit_process
    \/ InDedup /\ \E f \in RegFiles, d \in Data : ext_write(f, fsys.size[f], d)
    \/ InDedup /\ \E f \in RegFiles, s \in Sizes : ext_write(f, s, fsys.data[f])
    \/ InDedup /\ \E f \in RegFiles : ext_unlink(f)
    \/ InDedup /\ \E f \in RegFiles : ext_reuse(f)
    \/ InDedup /\ \E f \in RegFiles : ext_open_writer(f)
    \/ InDedup /\ \E f \in RegFiles : ext_chattr(f)

SpecDedup == InitDedup /\ [][NextDedup]_vars

(* ------------------------------ properties ---------------------------- *)

InBlock == pc \in {"hash", "cmp", "clone"}
InCloner == pc \in {"open", "enter", "hash", "cmp", "clone"}

\* C1: clone_data is called only for two files that are inside the
\* ImmutableFDs block with their flag set, are not in fds_in_write_use,
\* passed the fstat and length checks and have equal SHA-1 digests, right
\* after cmp_files found them equal; their bytes are equal when the call is
\* made.
C1_clone_after_checks == clone.checked /\ clone.same_bytes

\* C1: a clone_data call has replaced the extents of a file.
C1_cloned == \E r \in clone.results : r.returned

\* C2 as stated: after dedup_tracked has returned normally, every Inode row
\* of the volume set that has has_updates was deferred during the run.
C2_flagged_were_deferred ==
    run.returned =>
        \A k \in DOMAIN db.inode :
            k[1] \in run.volset /\ db.inode[k].has_updates
                => k \in run.deferred

\* C3 as stated: when dedup_tracked has finished, every inode that was
\* deferred during the run has has_updates in the committed catalog.
C3_deferred_stay_flagged ==
    run.returned =>
        \A k \in run.deferred \cap DOMAIN db.inode : db.inode[k].has_updates

\* C4 as stated: in every committed catalog, every Inode row has a size of
\* at least the size cutoff of its volume.
C4_sizes_reach_cutoff ==
    \A k \in DOMAIN db.inode : db.inode[k].size >= db.vol[k[1]].size_cutoff

\* C5 as stated: the committed last_tracked_generation of a volume never
\* decreases, forget_vol included.
C5_cursor_never_decreases ==
    [][\A v \in DOMAIN db.vol :
          db'.vol[v].last_tracked_generation
              >= db.vol[v].last_tracked_generation]_vars

\* C5, amended: the committed last_tracked_generation of a volume never
\* decreases across get_vol, track_updated_files and dedup_tracked; the one
\* step that lowers it is forget_vol, which sets it to 0 and leaves no Inode
\* row of the volume.
C5_cursor_decreases_in_forget_vol_only ==
    [][\A v \in DOMAIN db.vol :
          \/ db'.vol[v].last_tracked_generation
                 >= db.vol[v].last_tracked_generation
          \/ /\ db'.vol[v].last_tracked_generation = 0
             /\ \A k \in DOMAIN db'.inode : k[1] # v
             /\ pc = "idle" /\ pc' = "idle"]_vars

\* C5: a volume that was scanned to the end has been forgotten.
C5_forgotten ==
    \E v \in DOMAIN db.vol :
        /\ db.vol[v].last_tracked_generation = 0
        /\ db.vol[v].last_tracked_size_cutoff # None

\* C6: while a scan is under way, and after the tree-search ioctl has
\* failed in it, the committed catalog is the one the scan started from:
\* cursor, cutoff and Inode rows.
C6_failed_scan_commits_nothing ==
    (pc \in {"scan", "raised"} /\ sk.vol # 0) => db = sk.db0

\* C6: the ioctl has failed after a batch that changed Inode rows.
C6_failed_after_changes ==
    pc = "raised" /\ sk.vol # 0 /\ sess.inode # db.inode

\* C7: every DedupEvent belongs to a fileset in which clone_data returned
\* true at least once; its DedupEventInode rows are one for the source and
\* one for each destination whose clone_data returned true, and none for a
\* destination whose clone_data returned false.
C7_event_after_successful_clone ==
    \A i \in 1..Len(sess.events) :
        LET e == sess.events[i]
            T == {r \in clone.results : r.at = e.created /\ r.returned}
            F == {r \in clone.results : r.at = e.created /\ ~r.returned}
        IN /\ T # {}
           /\ \A r \in T : r.src = e.inodes[1]
           /\ {e.inodes[j] : j \in 2..Len(e.inodes)} = {r.dest : r \in T}
           /\ Len(e.inodes) = 1 + Cardinality(T)
           /\ Len(e.inodes) >= 2
           /\ \A r \in F : r.dest \notin Range(e.inodes)

\* C7: an event was added for a fileset in which one clone_data call
\* returned false.
C7_event_with_same_extents ==
    \E i \in 1..Len(sess.events) : \E r \in clone.results :
        r.at = sess.events[i].created /\ ~r.returned

\* C8: no step deletes or changes a committed DedupEvent or DedupEventInode
\* row; the rows committed before are a prefix of those committed after.
C8_audit_rows_only_grow ==
    [][/\ Len(db.events) <= Len(db'.events)
       /\ SubSeq(db'.events, 1, Len(db.events)) = db.events]_vars

\* C8: an Inode row is gone that an audit row mentions.
C8_inode_gone_audit_kept ==
    \E i \in 1..Len(db.events) :
        \E k \in Range(db.events[i].inodes) : k \notin DOMAIN db.inode

\* C9: while the files of a group are hashed, compared and cloned every
\* opened file has the immutable flag; outside the block no file has a flag
\* that the block set, however the block was left.
C9_immutable_in_block_restored_after ==
    /\ InBlock => \A f \in Range(run.files) : fsys.lock[f] # "none"
    /\ InBlock => run.revert = {f \in Files : fsys.lock[f] = "bedup"}
    /\ ~InBlock => \A f \in Files : fsys.lock[f] # "bedup"

\* C9: the block was left by an exception.
C9_left_by_exception == pc = "raised" /\ run.block = "raised"

\* C10: the process never holds more descriptors than the soft
\* RLIMIT_OFILE, and while the cloner has the files of a group open the
\* soft limit is at least 2 * count + reserved.
C10_descriptors_within_limit ==
    /\ run.peak <= rlimit.soft
    /\ Held(Len(run.files)) <= rlimit.soft
    /\ InCloner => rlimit.soft >= 2 * run.count3 + run.reserved

\* C10: the cloner has three files open after it raised the soft limit.
C10_opened_after_raise ==
    pc = "hash" /\ Len(run.files) = 3 /\ rlimit.soft > rlimit.soft0

\* C11: a group that needs more descriptors than the hard RLIMIT_OFILE
\* (2 * count + reserved > hard) is never opened: the cloner never has such
\* a group, none of its members is among the files the cloner opened, and
\* the step that leaves the group out changes no immutable flag, calls no
\* clone_data, leaves the limits alone and goes on with the next group.
C11_over_hard_never_opened ==
    /\ [](InCloner => /\ 2 * run.count3 + run.reserved <= rlimit.hard
                      /\ Range(run.keys) \cap run.overbudget = {})
    /\ [][~(run'.overbudget \subseteq run.overbudget)
             => /\ 2 * run'.count3 + run'.reserved > rlimit.hard
                /\ pc' \in {"fiemap", "gen"}
                /\ fsys'.lock = fsys.lock
                /\ clone' = clone
                /\ rlimit' = rlimit]_vars

\* C11: a run returned after it left out a group of four files that needs
\* more descriptors than the hard limit.
C11_group_left_out ==
    /\ run.returned
    /\ run.overbudget # {}
    /\ 2 * run.count3 + run.reserved > rlimit.hard

\* C12: when a group needs more descriptors than the hard limit allows,
\* the soft limit has been raised to the hard limit by the time the group
\* is deferred.
C12_soft_raised_before_defer ==
    run.overbudget # {} => rlimit.soft = rlimit.hard

\* C13: when dedup_tracked has returned, every member of a group that was
\* deferred for the descriptor budget has has_updates = TRUE in the
\* committed catalog, whatever its flag was when the group was formed.
C13_over_budget_members_flagged ==
    run.returned =>
        \A k \in run.overbudget \cap DOMAIN db.inode : db.inode[k].has_updates

\* C14: outside the pipeline, after a return as after an exception, the
\* connection's synchronous setting is FULL.
C14_synchronous_full_on_every_exit ==
    pc \in {"idle", "raised"} => synchronous = "FULL"

\* C15: a call of track_updated_files on a volume whose last scan ended
\* at the present root generation with the present size_cutoff makes no
\* tree search (it returns at the generation test) and leaves every Inode
\* row, last_tracked_generation and last_tracked_size_cutoff as they were;
\* it commits the session.
C15_rescan_changes_nothing ==
    [][\A v \in Vols :
          (/\ v \in DOMAIN sess.vol
           /\ sess.vol[v].last_tracked_size_cutoff = sess.vol[v].size_cutoff
           /\ sess.vol[v].last_tracked_generation = rootgen[v]
           /\ track_updated_files(v))
          => /\ pc' = "idle"
             /\ sk'.noop = v
             /\ sess' = sess
             /\ db' = sess]_vars

\* C15: a second scan of a volume with Inode rows has returned without a
\* tree search.
C15_rescanned ==
    /\ sk.noop # 0
    /\ sess.vol[sk.noop].last_tracked_size_cutoff = sess.vol[sk.noop].size_cutoff
    /\ sess.vol[sk.noop].last_tracked_generation = rootgen[sk.noop]
    /\ \E k \in DOMAIN sess.inode : k[1] = sk.noop

C17_modified_files_flagged ==
    [][track_end =>
          \A f \in Files :
              (/\ Linked(f) /\ FileReg[f] /\ FileVol[f] = sk.vol
               /\ fsys.size[f] >= sess.vol[sk.vol].size_cutoff
               /\ fsys.transid[f] > sk.ltg0
               /\ fsys.transid[f] <= sk.top_generation
               /\ f \notin sk.bad)
              => LET k == <<FileVol[f], FileIno[f]>>
                 IN /\ k \in DOMAIN db'.inode
                    /\ db'.inode[k].has_updates
                    /\ db'.inode[k].size = fsys.size[f]]_vars

\* C18: no mini hash or fiemap hash is stored on an Inode row from a file
\* whose (st_dev, st_ino) is not the row's volume and inode number: every
\* stage that opens a candidate by path checks that it opened the recorded
\* inode.
C18_hashes_from_recorded_inode == run.misread = {}

\* C19: an inode whose fopenat_rw failed with ENOENT in the clone stage has
\* no Inode row in the session afterwards.
C19_enoent_row_deleted ==
    \A k \in run.enoent : k \notin DOMAIN sess.inode

\* C20: when the hash loop of the clone stage is done, every file the
\* cloner opened whose length is below its volume's size_cutoff has lost
\* its Inode row and is in no fileset, and every file whose length differs
\* from the group size but is at least the cutoff is deferred.
C20_shrunk_candidates_deleted ==
    [][(pc = "hash" /\ pc' \notin {"hash", "raised"}) =>
          \A i \in 1..Len(run.files) :
              LET size == fsys.size[run.files[i]]
                  k == run.keys[i]
              IN /\ size < sess.vol[k[1]].size_cutoff =>
                        /\ k \notin DOMAIN sess'.inode
                        /\ pc' = "cmp" =>
                               \A j \in 1..Len(run'.filesets) :
                                   i \notin Range(run'.filesets[j])
                 /\ (size # run.size /\ size >= sess.vol[k[1]].size_cutoff) =>
                        k \in run'.deferred]_vars

\* C20: a file the cloner opened that is not in fds_in_write_use and whose
\* fstat matches its Inode record loses its row when its length is below
\* its volume's size_cutoff, and is deferred, keeping its row, when its
\* length differs from the group size but is at least the cutoff; in both
\* cases it is in no fileset.  The files of a fileset have the group's
\* size, which is at least the cutoff, while they are compared and cloned.
C20_length_check_deletes_or_defers ==
    /\ [](pc \in {"cmp", "clone"} =>
             \A j \in 1..Len(run.filesets) :
                 \A i \in Range(run.filesets[j]) :
                     /\ fsys.size[run.files[i]] = run.size
                     /\ run.size >= sess.vol[run.keys[i][1]].size_cutoff)
    /\ [][(pc = "hash" /\ pc' \notin {"hash", "raised"}) =>
             \A i \in 1..Len(run.files) :
                 LET afile == run.files[i]
                     size == fsys.size[afile]
                     k == run.keys[i]
                     cutoff == sess.vol[k[1]].size_cutoff
                     out == pc' = "cmp" =>
                                \A j \in 1..Len(run'.filesets) :
                                    i \notin Range(run'.filesets[j])
                 IN (/\ afile \notin run.in_write_use
                     /\ <<FileVol[afile], FileIno[afile]>> = k)
                    => /\ size < cutoff =>
                              k \notin DOMAIN sess'.inode /\ out
                       /\ (size # run.size /\ size >= cutoff) =>
                              /\ k \in run'.deferred
                              /\ k \in DOMAIN sess'.inode
                              /\ out]_vars

\* C20: a candidate of the group in the cloner has no Inode row any more
\* while its file is still linked, with a length below the cutoff.
C20_shrunk_row_deleted ==
    \E k \in Range(run.inodes) :
        /\ k \notin DOMAIN sess.inode
        /\ \E f \in Files :
               /\ Linked(f) /\ <<FileVol[f], FileIno[f]>> = k
               /\ fsys.size[f] < sess.vol[k[1]].size_cutoff

\* C21: a file that was unlinked after the cloner opened it has lost its
\* Inode row by the time the hash loop is done, and is in no fileset that
\* is compared and cloned.
C21_unlinked_after_open_is_stale ==
    pc \in {"cmp", "clone"} =>
        \A i \in 1..Len(run.files) :
            ~Linked(run.files[i]) =>
                /\ run.keys[i] \notin DOMAIN sess.inode
                /\ \A j \in 1..Len(run.filesets) :
                       i \notin Range(run.filesets[j])

\* C22: the files of a fileset that is compared and cloned were created no
\* later than the last scan of their volume: a file that took over the
\* inode number of a scanned file after the scan is deferred by the fstat
\* check and is never a source or destination of clone_data.
C22_reused_inode_never_cloned ==
    pc \in {"cmp", "clone"} =>
        \A j \in 1..Len(run.filesets) :
            \A i \in Range(run.filesets[j]) :
                LET f == run.files[i]
                IN fsys.gen[f] <=
                       sess.vol[FileVol[f]].last_tracked_generation

\* C23: a file reported in fds_in_write_use is deferred and is in no
\* fileset that is compared and cloned; the other files of the group that
\* pass the fstat and length checks are bucketed by digest all the same:
\* two of them with equal digests are in one fileset.
C23_write_use_skipped_others_proceed ==
    /\ [](pc \in {"cmp", "clone"} =>
             \A i \in 1..Len(run.files) :
                 run.files[i] \in run.in_write_use =>
                     /\ run.keys[i] \in run.deferred
                     /\ \A j \in 1..Len(run.filesets) :
                            i \notin Range(run.filesets[j]))
    /\ [][(pc = "hash" /\ pc' \notin {"hash", "raised"}) =>
             \A a, b \in 1..Len(run.files) :
                 (/\ a # b
                  /\ \A i \in {a, b} :
                         /\ run.files[i] \notin run.in_write_use
                         /\ <<FileVol[run.files[i]], FileIno[run.files[i]]>>
                                = run.keys[i]
                         /\ fsys.size[run.files[i]] = run.size
                  /\ sha1_of(fsys.data[run.files[a]])
                         = sha1_of(fsys.data[run.files[b]]))
                 => /\ pc' = "cmp"
                    /\ \E j \in 1..Len(run'.filesets) :
                           {a, b} \subseteq Range(run'.filesets[j])]_vars

\* C23: a file of the group that another process holds open for writing
\* is deferred, no race has happened, and a clone_data call on two other
\* files of the group has succeeded.
C23_others_cloned ==
    /\ budget = MaxRace
    /\ \E k \in run.deferred \cap Range(run.inodes) :
           \E f \in Files : <<FileVol[f], FileIno[f]>> = k /\ fsys.writer[f]
    /\ \E r \in clone.results :
           /\ r.returned
           /\ r.at = clone.now
           /\ {r.src, r.dest} \subseteq Range(run.inodes)

\* C24: track_updated_files scans from last_tracked_generation + 1 exactly
\* when last_tracked_size_cutoff is set and at most size_cutoff, and from 0
\* otherwise; a scan from 0 that ends cleanly leaves a committed row, with
\* has_updates = TRUE and the file's size, for every regular file whose
\* size is at least size_cutoff and below the old last_tracked_size_cutoff
\* (or any size, if there was none), whatever its generation, unless its
\* path lookup failed or it changed after the scan began.
C24_min_generation_and_full_rescan ==
    /\ [][\A v \in Vols :
             (v \in DOMAIN sess.vol /\ track_updated_files(v)) =>
                 LET vol == sess.vol[v]
                     incremental ==
                         /\ vol.last_tracked_size_cutoff # None
                         /\ vol.last_tracked_size_cutoff <= vol.size_cutoff
                     expected == IF incremental
                                 THEN vol.last_tracked_generation + 1 ELSE 0
                 IN IF pc' = "scan" THEN sk'.min_generation = expected
                    ELSE expected > rootgen[v]]_vars
    /\ [][(track_end /\ sk.min_generation = 0) =>
             \A f \in Files :
                 LET vol == sess.vol[sk.vol]
                     k == <<FileVol[f], FileIno[f]>>
                 IN (/\ Linked(f) /\ FileReg[f] /\ FileVol[f] = sk.vol
                     /\ fsys.size[f] >= vol.size_cutoff
                     /\ \/ vol.last_tracked_size_cutoff = None
                        \/ fsys.size[f] < vol.last_tracked_size_cutoff
                     /\ fsys.transid[f] <= sk.top_generation
                     /\ f \notin sk.bad)
                    => /\ k \in DOMAIN db'.inode
                       /\ db'.inode[k].has_updates
                       /\ db'.inode[k].size = fsys.size[f]]_vars

\* C24: after the cutoff was lowered, a scan from generation 0 has upserted
\* a file that is smaller than the old cutoff and as old as the last scan.
C24_rescanned_after_shrink ==
    /\ pc = "scan"
    /\ sk.min_generation = 0
    /\ sess.vol[sk.vol].last_tracked_size_cutoff # None
    /\ sess.vol[sk.vol].last_tracked_size_cutoff > sess.vol[sk.vol].size_cutoff
    /\ \E f \in Files :
           /\ Linked(f) /\ FileVol[f] = sk.vol
           /\ fsys.gen[f] <= sess.vol[sk.vol].last_tracked_generation
           /\ fsys.size[f] < sess.vol[sk.vol].last_tracked_size_cutoff
           /\ <<FileVol[f], FileIno[f]>> \in DOMAIN sess.inode
           /\ <<FileVol[f], FileIno[f]>> \notin DOMAIN db.inode

\* C25: over a scan the headers come in strictly ascending key order, so
\* none is yielded twice; every batch moves the cursor strictly forward, to
\* (objectid, type, offset + 1) of its last header; while the tree is as it
\* was when the scan began, every item in range is either yielded already
\* or at or after the cursor, so that the search which returns no item,
\* and ends the loop, comes when all of them were yielded.
C25_cursor_yields_each_item_once ==
    /\ [](\A i, j \in 1..Len(sk.yielded) :
             i < j => /\ KeyLeq(sk.yielded[i], sk.yielded[j])
                      /\ sk.yielded[i] # sk.yielded[j])
    /\ []((pc = "scan" /\ rootgen[sk.vol] = sk.top_generation) =>
             \A it \in TreeItems(sk.vol) :
                 fsys.transid[it.f] >= sk.min_generation =>
                     \/ KeyLeq(sk.min_key, it.key)
                     \/ \E i \in 1..Len(sk.yielded) : sk.yielded[i] = it.key)
    /\ [][(pc = "scan" /\ pc' = "scan" /\ sk' # sk) =>
             LET last == sk'.yielded[Len(sk'.yielded)]
             IN /\ Len(sk'.yielded) > Len(sk.yielded)
                /\ sk'.min_key = <<last[1], last[2], last[3] + 1>>
                /\ KeyLeq(sk.min_key, sk'.min_key)
                /\ sk.min_key # sk'.min_key]_vars
    /\ [][(track_end /\ rootgen[sk.vol] = sk.top_generation) =>
             \A it \in TreeItems(sk.vol) :
                 fsys.transid[it.f] >= sk.min_generation =>
                     \E i \in 1..Len(sk.yielded) : sk.yielded[i] = it.key]_vars

\* C25: a scan of an unchanged tree is at its end after three batches:
\* six headers were yielded and the next search returns none.
C25_scan_at_end ==
    /\ pc = "scan"
    /\ rootgen[sk.vol] = sk.top_generation
    /\ Len(sk.yielded) = 3 * NR_ITEMS
    /\ TreeSearch(sk.vol, sk.min_key, sk.min_generation, NR_ITEMS) = << >>

C27_soft_limit_only_raised ==
    /\ [](rlimit.soft <= rlimit.hard)
    /\ [][rlimit' # rlimit =>
             \/ exit_process
             \/ /\ pc = "fiemap" /\ pc' = "open"
                /\ rlimit'.soft > rlimit.soft
                /\ rlimit'.soft = 2 * run'.count3 + run'.reserved
                /\ rlimit'.soft <= rlimit.hard
                /\ rlimit'.hard = rlimit.hard
                /\ rlimit'.soft0 = rlimit.soft0]_vars

\* C27: the budget step has raised the soft limit.
C27_soft_limit_raised ==
    /\ InCloner
    /\ rlimit.soft > rlimit.soft0
    /\ rlimit.soft = 2 * run.count3 + run.reserved

\* C28: from the start of a dedup_tracked call to its end, no step changes
\* has_updates, size or existence of an Inode row of a volume outside the
\* volume set of the call, in the session or in the committed catalog,
\* beyond committing what the session held for it.
C28_other_volumes_untouched ==
    [][\A k \in Keys :
          (/\ k[1] \notin run'.volset
           /\ run'.volset # {}
           /\ pc # "scan" /\ pc' # "scan"
           /\ ~exit_process)
          => /\ k \in DOMAIN sess'.inode <=> k \in DOMAIN sess.inode
             /\ k \in DOMAIN sess.inode =>
                    /\ sess'.inode[k].has_updates = sess.inode[k].has_updates
                    /\ sess'.inode[k].size = sess.inode[k].size
             /\ k \in DOMAIN db'.inode <=>
                    k \in DOMAIN (IF db' = db THEN db ELSE sess).inode
             /\ k \in DOMAIN db'.inode =>
                    LET was == (IF db' = db THEN db ELSE sess).inode[k]
                    IN /\ db'.inode[k].has_updates = was.has_updates
                       /\ db'.inode[k].size = was.size]_vars

\* C28: a call on volume 1 has returned after clearing the flags of
\* volume 1, and volume 2 has a flagged row of the largest size.
C28_other_volume_flagged ==
    /\ run.returned
    /\ run.volset = {1}
    /\ \E k \in DOMAIN db.inode : k[1] = 1 /\ ~db.inode[k].has_updates
    /\ \E k \in DOMAIN db.inode :
           /\ k[1] = 2 /\ db.inode[k].has_updates
           /\ \A j \in DOMAIN db.inode : db.inode[j].size <= db.inode[k].size

====
